---- MODULE Spec2Model ----
(***************************************************************************)
(* Model of the Echo-Vision live session controller                        *)
(* (src/components/EchoVision.tsx) and of the App shell that mounts it     *)
(* (src/App.tsx).                                                          *)
(*                                                                         *)
(* Every call of startSession is an "attempt" a \in Attempts: it owns the  *)
(* media stream, the two audio contexts, the connection and the timer it   *)
(* creates.  Every mount of <EchoVision/> is an "instance" i \in Insts: it *)
(* owns the React state (isActive, error) and the refs.  The callbacks of  *)
(* an attempt close over the refs of the instance that started it, also    *)
(* after that instance was unmounted.  0 stands for null.                  *)
(***************************************************************************)
EXTENDS Integers, FiniteSets, Sequences, TLC

\* ---- bounds ----
MaxStarts == 2      \* startSession calls in one behaviour
MaxMounts == 2      \* mounts of the EchoVision component in one behaviour
MaxSources == 1     \* audio-response chunks delivered in one behaviour of Spec
MaxChunks == 3      \* audio-response chunks delivered in one behaviour of BurstSpec
MaxPlayed == 2      \* audio-response chunks delivered in one behaviour of PlaybackSpec
MaxLive == 1        \* live sessions started in one behaviour of GallerySpec
MaxBytes == 4       \* byte length of a decoded audio-response chunk
MaxRouted == 2      \* audio-response chunks delivered in one behaviour of RoutingSpec
MaxFrames == 3      \* frames the capture callbacks of one session produce
MaxLen == 4         \* bytes of an input of the codec utilities
MaxChannels == 2    \* channels decodeAudioData is applied with
MaxBlock == 2       \* samples of a capture block
MaxPresses == 2     \* presses of the record button in one behaviour
MaxClock == 2       \* last value of an output context's clock, in frames of 1/24000 s

\* Bytes of one frame of 16-bit mono PCM (data.byteLength / 2).
FrameBytes == 2

Attempts == 1..MaxStarts
Insts == 1..MaxMounts
Sources == 1..MaxChunks
ChunkBytes == 1..MaxBytes

VARIABLES
    mode,                   \* App: 'LIVE' | 'GALLERY'
    status,                 \* App: SessionStatus last written by onStatusChange
    cur,                    \* mounted EchoVision instance, 0 in GALLERY mode
    nInst,                  \* EchoVision instances mounted so far
    nAtt,                   \* startSession calls so far
    isActive,               \* [Insts -> BOOLEAN]      useState(false)
    error,                  \* [Insts -> NoError or {title, detail}]  useState(null)
    sessionRef,             \* [Insts -> 0..MaxStarts] attempt whose Session is held
    audioContextInputRef,   \* [Insts -> 0..MaxStarts] attempt whose input context is held
    audioContextOutputRef,  \* [Insts -> 0..MaxStarts] attempt whose output context is held
    frameIntervalRef,       \* [Insts -> 0..MaxStarts] attempt whose interval id is held
    sourcesRef,             \* [Insts -> SUBSET Sources]
    srcObject,              \* [Insts -> 0..MaxStarts] stream attached to the <video>
    inst,                   \* [Attempts -> 0..MaxMounts] instance that ran startSession
    pc,                     \* [Attempts -> position of startSession]
    tracks,                 \* [Attempts -> "none" | "live" | "stopped"]
    ctxIn,                  \* [Attempts -> "none" | "open" | "closed"]
    ctxOut,                 \* [Attempts -> "none" | "open" | "closed"]
    conn,                   \* [Attempts -> "none" | "opening" | "open" | "closing" | "closed"]
    timer,                  \* [Attempts -> BOOLEAN] setInterval armed
    proc,                   \* [Attempts -> 0..MaxStarts] context the ScriptProcessor runs on
    queued,                 \* [Attempts -> Seq(Frames)] frames waiting in sessionPromise.then
    srcState,               \* [Sources -> "none" | "decoding" | "resuming" | "dropped" | "failed" | "playing" | "stopped" | "ended"]
    srcOwner,               \* [Sources -> 0..MaxMounts] instance whose handler received the chunk
    nextStartTimeRef,       \* [Insts -> Nat]          useRef<number>(0), in frames
    currentTime,            \* [Attempts -> Nat]       ctx.currentTime of the output context
    srcSession,             \* [Sources -> 0..MaxStarts] attempt whose connection delivered the chunk
    srcCtx,                 \* [Sources -> 0..MaxStarts] attempt whose output context schedules it
    srcBytes,               \* [Sources -> Nat] byte length of the decoded chunk
    srcArrived,             \* [Sources -> Nat] ctx.currentTime when onmessage was called
    srcStall,               \* [Sources -> BOOLEAN] the clock had passed the cursor then
    srcStart,               \* [Sources -> Nat] the time passed to source.start
    srcEnd,                 \* [Sources -> Nat] the time the source plays to its end
    cueCtx,                 \* AudioContexts created by playSoundCue (never closed)
    teardowns,              \* [Attempts -> Nat] stopSession calls made by onerror/onclose
    stopCues,               \* playSoundCue('stop') calls so far
    lastMessage,            \* [Insts -> text]        useState('')
    message,                \* the LiveServerMessage last passed to onmessage
    produced,               \* [Attempts -> 0..MaxFrames] last frame the capture callbacks produced
    wire,                   \* [Attempts -> 0..MaxFrames] last frame passed to sendRealtimeInput
    argBytes,               \* the Uint8Array a codec utility is applied to
    argChannels,            \* the numChannels decodeAudioData is applied with
    retEncode,              \* what encode(argBytes) returned
    retDecode,              \* what decode of that text returned
    retDecodeAudioData,     \* what decodeAudioData(argBytes, .., argChannels) returned or threw
    inputData,              \* the Float32Array of a capture block, in units of 1/65536
    int16,                  \* the Int16Array that onaudioprocess filled from it
    gallery,                \* state of the mounted GalleryAnalyzer: mediaUrl, result, isProcessing, isRecording, error
    fileInputRef,           \* files of its <input type="file">: << >> or <<size in bytes>>
    mediaRecorderRef,       \* press whose MediaRecorder its ref holds, 0 for null
    held,                   \* the record button was pressed and not yet released or left
    nPress,                 \* startRecording calls so far
    rec,                    \* [Presses -> "none" | "gum" | "denied" | "recording" | "stopping" | "inactive"]
    recUrl,                 \* [Presses -> mediaUrl seen by the closures of the press]
    recInst,                \* [Presses -> 0..MaxMounts] GalleryAnalyzer mount of the press
    mic,                    \* [Presses -> "none" | "live" | "stopped"] tracks of its stream
    analysis,               \* [Presses -> "none" | "running" | "done" | "failed"] processMultimodal
    media                   \* [Presses -> size of the media part of its request, 0 for none]

vars == <<mode, status, cur, nInst, nAtt, isActive, error, sessionRef,
          audioContextInputRef, audioContextOutputRef, frameIntervalRef,
          sourcesRef, srcObject, inst, pc, tracks, ctxIn, ctxOut, conn,
          timer, proc, queued, srcState, srcOwner, nextStartTimeRef,
          currentTime, srcSession, srcCtx, srcBytes, srcArrived, srcStall,
          srcStart, srcEnd, cueCtx, teardowns, stopCues,
          lastMessage, message, produced, wire, argBytes, argChannels,
          retEncode, retDecode, retDecodeAudioData, inputData, int16,
          gallery, fileInputRef,
          mediaRecorderRef, held, nPress, rec, recUrl, recInst, mic, analysis,
          media>>

appVars == <<mode, cur, nInst>>
inVars == <<lastMessage, message>>
outVars == <<produced, wire>>
utilVars == <<argBytes, argChannels, retEncode, retDecode, retDecodeAudioData,
              inputData, int16>>
compVars == <<gallery, fileInputRef, mediaRecorderRef>>
recVars == <<held, nPress, rec, recUrl, recInst, mic, analysis, media>>
galVars == <<compVars, recVars>>
refVars == <<sessionRef, audioContextInputRef, audioContextOutputRef,
             frameIntervalRef, sourcesRef, srcObject>>
attVars == <<inst, pc, tracks, ctxIn, ctxOut, conn, timer, proc, queued>>
srcVars == <<srcState, srcOwner>>
playVars == <<nextStartTimeRef, currentTime, srcSession, srcCtx, srcBytes,
              srcArrived, srcStall, srcStart, srcEnd>>

\* The error state when it is null.
NoError == [title |-> "", detail |-> ""]

(***************************************************************************)
(* What a failed start() throws: the kind of the failure and err.message,  *)
(* which is either empty or a text the environment gives for that kind.    *)
(***************************************************************************)
MessageText ==
    [permission |-> "Permission denied",
     hardware   |-> "Requested device not found",
     playback   |-> "The play() request was interrupted",
     setup      |-> "An API Key must be set",
     connection |-> "Connection failed"]

ErrorsOf(kinds) ==
    {[kind |-> k, message |-> m] : k \in kinds, m \in {""}} \cup
    {[kind |-> k, message |-> MessageText[k]] : k \in kinds}

DeviceErrors == ErrorsOf({"permission", "hardware"})
PlaybackErrors == ErrorsOf({"playback"})
SetupErrors == ErrorsOf({"setup"})
ConnectionErrors == ErrorsOf({"connection"})

\* The value the catch passes to setError, EchoVision.tsx:243.
ErrorShown(err) ==
    [title |-> "Access Denied",
     detail |-> IF err.message = "" THEN "Please enable permissions."
                ELSE err.message]

\* The media of a sendRealtimeInput call, EchoVision.tsx:189-191 and
\* 207-209, is named by its place among the frames that the capture
\* callbacks of the session produced; 0 is no frame.
Frames == 1..MaxFrames
NoFrame == 0

\* The text fragments a transcription can carry.
Texts == {"A", "B"}

\* The text of a Transcription that has none (the SDK type has text and
\* finished both optional): the JavaScript undefined, which is none of Texts.
undefined == "undefined"

\* serverContent.outputTranscription or inputTranscription: absent, or an
\* object whose text is a fragment, the empty string, or undefined.
Absent == [present |-> FALSE, text |-> undefined]
Transcription(x) == [present |-> TRUE, text |-> x]

\* A LiveServerMessage as onmessage reads it, EchoVision.tsx:216-219:
\* serverContent.outputTranscription, serverContent.inputTranscription and
\* the byte length of modelTurn.parts[0].inlineData.data (0 when absent).
NoMessage ==
    [audio |-> 0, outputTranscription |-> Absent, inputTranscription |-> Absent]
AudioChunk(n) == [NoMessage EXCEPT !.audio = n]
OutputTranscript(x) == [NoMessage EXCEPT !.outputTranscription = Transcription(x)]
InputTranscript(x) == [NoMessage EXCEPT !.inputTranscription = Transcription(x)]

\* The messages of one transcription or none, with or without audio of one
\* frame; an output transcription may have an empty text or none.
Messages ==
    LET Plain == {NoMessage}
                    \cup {OutputTranscript(x) : x \in Texts \cup {"", undefined}}
                    \cup {InputTranscript(x) : x \in Texts}
    IN  Plain \cup {[m EXCEPT !.audio = FrameBytes] : m \in Plain}

\* GalleryAnalyzer.tsx:9, and the limit in bytes of line 33.
MAX_FILE_SIZE_MB == 10
MaxFileSize == MAX_FILE_SIZE_MB * 1024 * 1024

\* The files the user selects, by their size in bytes.
FileSizes == {MaxFileSize, MaxFileSize + 1}

\* e.target.files?.[0] when the file dialog was dismissed or gave no file.
NoFile == 0

\* mediaUrl is null, or the object URL of the file of the given size.
NoUrl == 0

\* The state of a GalleryAnalyzer when mounted, GalleryAnalyzer.tsx:12-21.
GalleryInit ==
    [mediaUrl |-> NoUrl, result |-> "", isProcessing |-> FALSE,
     isRecording |-> FALSE, error |-> ""]

Presses == 1..MaxPresses

\* SessionStatus (types.ts)
SessionStatus == {"IDLE", "CONNECTING", "ACTIVE", "ERROR", "ANALYZING", "SEARCHING"}

InitController ==
    /\ mode = "LIVE"
    /\ status = "IDLE"
    /\ cur = 1
    /\ nInst = 1
    /\ nAtt = 0
    /\ isActive = [i \in Insts |-> FALSE]
    /\ error = [i \in Insts |-> NoError]
    /\ sessionRef = [i \in Insts |-> 0]
    /\ audioContextInputRef = [i \in Insts |-> 0]
    /\ audioContextOutputRef = [i \in Insts |-> 0]
    /\ frameIntervalRef = [i \in Insts |-> 0]
    /\ sourcesRef = [i \in Insts |-> {}]
    /\ srcObject = [i \in Insts |-> 0]
    /\ inst = [a \in Attempts |-> 0]
    /\ pc = [a \in Attempts |-> "none"]
    /\ tracks = [a \in Attempts |-> "none"]
    /\ ctxIn = [a \in Attempts |-> "none"]
    /\ ctxOut = [a \in Attempts |-> "none"]
    /\ conn = [a \in Attempts |-> "none"]
    /\ timer = [a \in Attempts |-> FALSE]
    /\ proc = [a \in Attempts |-> 0]
    /\ queued = [a \in Attempts |-> <<>>]
    /\ srcState = [s \in Sources |-> "none"]
    /\ srcOwner = [s \in Sources |-> 0]
    /\ nextStartTimeRef = [i \in Insts |-> 0]
    /\ currentTime = [a \in Attempts |-> 0]
    /\ srcSession = [s \in Sources |-> 0]
    /\ srcCtx = [s \in Sources |-> 0]
    /\ srcBytes = [s \in Sources |-> 0]
    /\ srcArrived = [s \in Sources |-> 0]
    /\ srcStall = [s \in Sources |-> FALSE]
    /\ srcStart = [s \in Sources |-> 0]
    /\ srcEnd = [s \in Sources |-> 0]
    /\ cueCtx = 0
    /\ teardowns = [a \in Attempts |-> 0]
    /\ stopCues = 0
    /\ lastMessage = [i \in Insts |-> ""]
    /\ message = NoMessage
    /\ produced = [a \in Attempts |-> NoFrame]
    /\ wire = [a \in Attempts |-> NoFrame]
    /\ gallery = GalleryInit
    /\ fileInputRef = <<>>
    /\ mediaRecorderRef = 0
    /\ held = FALSE
    /\ nPress = 0
    /\ rec = [p \in Presses |-> "none"]
    /\ recUrl = [p \in Presses |-> NoUrl]
    /\ recInst = [p \in Presses |-> 0]
    /\ mic = [p \in Presses |-> "none"]
    /\ analysis = [p \in Presses |-> "none"]
    /\ media = [p \in Presses |-> 0]

\* No codec utility has been applied.
NoResult == [none |-> TRUE]
Returned(v) == [value |-> v]

Init ==
    /\ InitController
    /\ argBytes = <<>>
    /\ argChannels = 1
    /\ retEncode = NoResult
    /\ retDecode = NoResult
    /\ retDecodeAudioData = NoResult
    /\ inputData = <<>>
    /\ int16 = NoResult

\* React drops a state update of an unmounted component.
setState(f, i, v) == IF cur = i THEN [f EXCEPT ![i] = v] ELSE f

\* playSoundCue: the number of cue contexts after a cue is played by
\* instance i, given the output context ref outRef and the count before.
playSoundCue(outRef, n) == IF outRef # 0 THEN n ELSE n + 1

\* if (!silent && isActive) playSoundCue('stop'), EchoVision.tsx:109: the
\* number of cue contexts after it.
stopCue(outRef, silent, act, n) ==
    IF ~silent /\ act THEN playSoundCue(outRef, n) ELSE n

\* sourcesRef.current.clear(), EchoVision.tsx:121.
clear(set) == {}

(***************************************************************************)
(* stopSession(silent), EchoVision.tsx:108-135, run on the refs of         *)
(* instance i.  act is the isActive value its closure captured; conn0 and  *)
(* cue0 are the connection states and the cue-context count at the call    *)
(* (the caller may have changed them first).                               *)
(***************************************************************************)
stopSession(i, silent, act, conn0, cue0) ==
    /\ cueCtx' = stopCue(audioContextOutputRef[i], silent, act, cue0)
    /\ stopCues' = IF ~silent /\ act THEN stopCues + 1 ELSE stopCues
    /\ isActive' = setState(isActive, i, FALSE)
    /\ status' = "IDLE"
    /\ timer' = IF frameIntervalRef[i] # 0
                THEN [timer EXCEPT ![frameIntervalRef[i]] = FALSE] ELSE timer
    /\ frameIntervalRef' = [frameIntervalRef EXCEPT ![i] = 0]
    /\ conn' = IF sessionRef[i] # 0 /\ conn0[sessionRef[i]] = "open"
               THEN [conn0 EXCEPT ![sessionRef[i]] = "closing"] ELSE conn0
    /\ sessionRef' = [sessionRef EXCEPT ![i] = 0]
    /\ srcState' = [s \in Sources |->
                      IF s \in sourcesRef[i] /\ srcState[s] = "playing"
                      THEN "stopped" ELSE srcState[s]]
    /\ sourcesRef' = [sourcesRef EXCEPT ![i] = clear(@)]
    /\ ctxIn' = IF audioContextInputRef[i] # 0
                THEN [ctxIn EXCEPT ![audioContextInputRef[i]] = "closed"] ELSE ctxIn
    /\ audioContextInputRef' = [audioContextInputRef EXCEPT ![i] = 0]
    /\ ctxOut' = IF audioContextOutputRef[i] # 0
                 THEN [ctxOut EXCEPT ![audioContextOutputRef[i]] = "closed"] ELSE ctxOut
    /\ audioContextOutputRef' = [audioContextOutputRef EXCEPT ![i] = 0]
    \* videoRef.current is null once the instance is unmounted
    /\ tracks' = IF cur = i /\ srcObject[i] # 0
                 THEN [tracks EXCEPT ![srcObject[i]] = "stopped"] ELSE tracks
    /\ srcObject' = IF cur = i THEN [srcObject EXCEPT ![i] = 0] ELSE srcObject
    \* nextStartTimeRef is not written by stopSession
    /\ UNCHANGED <<srcOwner, error, playVars>>

\* The Stop button: onClick={isActive ? stopSession : startSession}
\* (EchoVision.tsx:299).  React passes the click event as the first
\* argument, so silent is truthy.
UserStop ==
    /\ cur # 0
    /\ isActive[cur]
    /\ stopSession(cur, TRUE, isActive[cur], conn, cueCtx)
    /\ UNCHANGED <<galVars, utilVars, inVars, outVars, appVars, nAtt, inst, pc, proc, queued, teardowns>>

\* A catch that reports the error and then acquires the devices again.
CatchRetrying(a, outRef, err) ==
    /\ cueCtx' = playSoundCue(outRef, cueCtx)
    /\ error' = setState(error, inst[a], ErrorShown(err))
    /\ status' = "ERROR"
    /\ pc' = [pc EXCEPT ![a] = IF pc[a] = "gum" THEN "failed" ELSE "gum"]

\* catch (err) of startSession, EchoVision.tsx:241-245, for attempt a whose
\* instance holds the output context ref outRef.
Catch(a, outRef, err) ==
    /\ cueCtx' = playSoundCue(outRef, cueCtx)
    /\ error' = setState(error, inst[a], ErrorShown(err))
    /\ status' = "ERROR"
    /\ pc' = [pc EXCEPT ![a] = "failed"]

\* The Initialize button: startSession up to its first await,
\* EchoVision.tsx:137-142.
StartClick ==
    /\ cur # 0
    /\ ~isActive[cur]
    /\ nAtt < MaxStarts
    /\ nAtt' = nAtt + 1
    /\ error' = setState(error, cur, NoError)
    /\ status' = "CONNECTING"
    /\ inst' = [inst EXCEPT ![nAtt + 1] = cur]
    /\ pc' = [pc EXCEPT ![nAtt + 1] = "gum"]
    /\ UNCHANGED <<galVars, utilVars, inVars, outVars, appVars, isActive, refVars, tracks, ctxIn, ctxOut, conn,
                   timer, proc, queued, srcVars, cueCtx, stopCues, teardowns,
                   playVars>>

\* getUserMedia rejects with err (permission denied or no device): the
\* catch runs.
GumRejectWith(a, err) ==
    /\ pc[a] = "gum"
    /\ Catch(a, audioContextOutputRef[inst[a]], err)
    /\ UNCHANGED <<galVars, utilVars, inVars, outVars, appVars, nAtt, isActive, refVars, inst, tracks, ctxIn,
                   ctxOut, conn, timer, proc, queued, srcVars, teardowns, stopCues,
                   playVars>>

GumReject(a) == \E err \in DeviceErrors : GumRejectWith(a, err)

SetupOutcomes == {"ok", "aiThrows", "outputCtxThrows"}

(***************************************************************************)
(* EchoVision.tsx:154-163: new GoogleGenAI, the two AudioContexts, the     *)
(* 'connecting' cue and ai.live.connect, run without suspension.  o is     *)
(* what the environment lets succeed: "aiThrows" fails before any context  *)
(* exists (line 154 or 155), "outputCtxThrows" fails at line 156.          *)
(***************************************************************************)
Setup(a, o) ==
    LET i == inst[a] IN
    /\ audioContextInputRef' =
          IF o = "aiThrows" THEN audioContextInputRef
          ELSE [audioContextInputRef EXCEPT ![i] = a]
    /\ ctxIn' = IF o = "aiThrows" THEN ctxIn ELSE [ctxIn EXCEPT ![a] = "open"]
    /\ audioContextOutputRef' =
          IF o = "ok" THEN [audioContextOutputRef EXCEPT ![i] = a]
          ELSE audioContextOutputRef
    /\ ctxOut' = IF o = "ok" THEN [ctxOut EXCEPT ![a] = "open"] ELSE ctxOut
    /\ IF o = "ok"
       THEN /\ conn' = [conn EXCEPT ![a] = "opening"]
            /\ pc' = [pc EXCEPT ![a] = "connecting"]
            \* playSoundCue('connecting') finds the output context just made
            /\ UNCHANGED <<cueCtx, stopCues, error, status>>
       ELSE /\ \E err \in SetupErrors : Catch(a, audioContextOutputRef[i], err)
            /\ UNCHANGED conn

\* getUserMedia resolves.  Mounted: the stream is attached to the <video>
\* and startSession suspends in video.play() (lines 147-152).
GumResolveMounted(a) ==
    /\ pc[a] = "gum"
    /\ cur = inst[a]
    /\ tracks' = [tracks EXCEPT ![a] = "live"]
    /\ srcObject' = [srcObject EXCEPT ![inst[a]] = a]
    /\ pc' = [pc EXCEPT ![a] = "play"]
    /\ UNCHANGED <<galVars, utilVars, inVars, outVars, appVars, status, nAtt, isActive, error, sessionRef,
                   audioContextInputRef, audioContextOutputRef,
                   frameIntervalRef, sourcesRef, inst, ctxIn, ctxOut, conn,
                   timer, proc, queued, srcVars, cueCtx, stopCues, teardowns,
                   playVars>>

\* getUserMedia resolves after the instance was unmounted: videoRef.current
\* is null, lines 148-151 are skipped and the set-up runs at once.
GumResolveUnmounted(a, o) ==
    /\ pc[a] = "gum"
    /\ cur # inst[a]
    /\ tracks' = [tracks EXCEPT ![a] = "live"]
    /\ Setup(a, o)
    /\ UNCHANGED <<galVars, utilVars, inVars, outVars, appVars, nAtt, isActive, sessionRef, frameIntervalRef,
                   sourcesRef, srcObject, inst, timer, proc, queued, srcVars,
                   teardowns, stopCues,
                   playVars>>

\* video.play() rejects: the catch runs.
PlayReject(a) ==
    /\ pc[a] = "play"
    /\ \E err \in PlaybackErrors : Catch(a, audioContextOutputRef[inst[a]], err)
    /\ UNCHANGED <<galVars, utilVars, inVars, outVars, appVars, nAtt, isActive, refVars, inst, tracks, ctxIn,
                   ctxOut, conn, timer, proc, queued, srcVars, teardowns, stopCues,
                   playVars>>

\* video.play() resolves: the set-up runs.
PlayResolve(a, o) ==
    /\ pc[a] = "play"
    /\ Setup(a, o)
    /\ UNCHANGED <<galVars, utilVars, inVars, outVars, appVars, nAtt, isActive, sessionRef, frameIntervalRef,
                   sourcesRef, srcObject, inst, tracks, timer, proc, queued,
                   srcVars, teardowns, stopCues,
                   playVars>>

\* The connection promise rejects with err (line 240 throws): the catch
\* runs.
ConnectRejectWith(a, err) ==
    /\ pc[a] = "connecting"
    /\ conn[a] = "opening"
    /\ conn' = [conn EXCEPT ![a] = "closed"]
    /\ Catch(a, audioContextOutputRef[inst[a]], err)
    /\ UNCHANGED <<galVars, utilVars, inVars, outVars, appVars, nAtt, isActive, refVars, inst, tracks, ctxIn,
                   ctxOut, timer, proc, queued, srcVars, teardowns, stopCues,
                   playVars>>

ConnectReject(a) == \E err \in ConnectionErrors : ConnectRejectWith(a, err)

\* onopen, EchoVision.tsx:176-214.
onopen(a) ==
    LET i == inst[a] IN
    /\ pc[a] = "connecting"
    /\ conn[a] = "opening"
    /\ conn' = [conn EXCEPT ![a] = "open"]
    /\ pc' = [pc EXCEPT ![a] = "opened"]
    /\ isActive' = setState(isActive, i, TRUE)
    /\ status' = "ACTIVE"
    /\ cueCtx' = playSoundCue(audioContextOutputRef[i], cueCtx)
    \* lines 181-196: the capture loop runs on whatever context the ref holds
    /\ proc' = [proc EXCEPT ![a] = audioContextInputRef[i]]
    \* line 198: the ref is overwritten, a timer it held before stays armed
    /\ timer' = [timer EXCEPT ![a] = TRUE]
    /\ frameIntervalRef' = [frameIntervalRef EXCEPT ![i] = a]
    /\ UNCHANGED <<galVars, utilVars, inVars, outVars, appVars, nAtt, error, sessionRef, audioContextInputRef,
                   audioContextOutputRef, sourcesRef, srcObject, inst, tracks,
                   ctxIn, ctxOut, queued, srcVars, teardowns, stopCues,
                   playVars>>

\* The connection promise resolves: sessionRef.current = await sessionPromise
\* (line 240), and the frames that waited in sessionPromise.then are handed
\* to the transport (lines 188-192, 206-210).
Resolve(a) ==
    /\ pc[a] = "opened"
    /\ pc' = [pc EXCEPT ![a] = "done"]
    /\ sessionRef' = [sessionRef EXCEPT ![inst[a]] = a]
    /\ queued' = [queued EXCEPT ![a] = <<>>]
    /\ wire' = IF queued[a] = <<>> THEN wire
               ELSE [wire EXCEPT ![a] = queued[a][Len(queued[a])]]
    /\ UNCHANGED <<galVars, utilVars, inVars, produced, appVars, status, nAtt, isActive, error,
                   audioContextInputRef, audioContextOutputRef,
                   frameIntervalRef, sourcesRef, srcObject, inst, tracks,
                   ctxIn, ctxOut, conn, timer, proc, srcVars, cueCtx, stopCues,
                   teardowns,
                   playVars>>

\* onerror, EchoVision.tsx:233-236: the remote side reports an error.
onerror(a) ==
    LET i == inst[a] IN
    /\ conn[a] \in {"opening", "open"}
    /\ stopSession(i, TRUE, FALSE, [conn EXCEPT ![a] = "closing"],
                   playSoundCue(audioContextOutputRef[i], cueCtx))
    /\ teardowns' = [teardowns EXCEPT ![a] = @ + 1]
    /\ UNCHANGED <<galVars, utilVars, inVars, outVars, appVars, nAtt, inst, pc, proc, queued>>

\* onclose, EchoVision.tsx:237: the socket closed, by the remote side, after
\* an error, or after session.close().  The stopSession it calls is the one
\* of the render that ran startSession, where isActive was false.
onclose(a) ==
    /\ conn[a] \in {"opening", "open", "closing"}
    /\ stopSession(inst[a], FALSE, FALSE, [conn EXCEPT ![a] = "closed"], cueCtx)
    /\ teardowns' = [teardowns EXCEPT ![a] = @ + 1]
    /\ UNCHANGED <<galVars, utilVars, inVars, outVars, appVars, nAtt, inst, pc, proc, queued>>

\* The earlier of the two.
EarlierOf(x, y) == IF x <= y THEN x ELSE y

\* Math.max
Max(x, y) == IF x >= y THEN x ELSE y

\* The error ctx.createBuffer raises for a buffer of no frames.
NotSupportedError == [error |-> "NotSupportedError"]

(***************************************************************************)
(* The codec utilities, EchoVision.tsx:81-106.  A byte is a number in      *)
(* 0..255, a Uint8Array a sequence of bytes, a string a sequence of        *)
(* characters; a binary string is given by the code units of its           *)
(* characters.                                                             *)
(***************************************************************************)

\* The base64 alphabet of btoa and atob: the character of each sextet.
Base64Chars ==
    <<
       "A", "B", "C", "D", "E", "F", "G", "H",
       "I", "J", "K", "L", "M", "N", "O", "P",
       "Q", "R", "S", "T", "U", "V", "W", "X",
       "Y", "Z", "a", "b", "c", "d", "e", "f",
       "g", "h", "i", "j", "k", "l", "m", "n",
       "o", "p", "q", "r", "s", "t", "u", "v",
       "w", "x", "y", "z", "0", "1", "2", "3",
       "4", "5", "6", "7", "8", "9", "+", "/">>

\* The character of the sextet v, and the sextet of the character c.
CharOf(v) == Base64Chars[v + 1]
SextetOf(c) == (CHOOSE k \in 1..64 : Base64Chars[k] = c) - 1

\* btoa: three code units make four characters; one or two left over make
\* two or three characters and padding.
RECURSIVE btoa(_)
btoa(binary) ==
    LET len == Len(binary)
        c1 == binary[1]
        c2 == binary[2]
        c3 == binary[3]
    IN  IF len = 0 THEN <<>>
        ELSE IF len = 1
        THEN <<CharOf(c1 \div 4), CharOf((c1 % 4) * 16), "=", "=">>
        ELSE IF len = 2
        THEN <<CharOf(c1 \div 4), CharOf((c1 % 4) * 16 + c2 \div 16),
               CharOf((c2 % 16) * 4), "=">>
        ELSE <<CharOf(c1 \div 4), CharOf((c1 % 4) * 16 + c2 \div 16),
               CharOf((c2 % 16) * 4 + c3 \div 64), CharOf(c3 % 64)>>
             \o btoa(SubSeq(binary, 4, len))

\* atob, for the padded text that btoa makes: four characters make three
\* code units, fewer where the last ones are padding.
RECURSIVE atob(_)
atob(base64) ==
    LET len == Len(base64)
        v1 == SextetOf(base64[1])
        v2 == SextetOf(base64[2])
        v3 == SextetOf(base64[3])
        v4 == SextetOf(base64[4])
    IN  IF len = 0 THEN <<>>
        ELSE IF base64[3] = "="
        THEN <<v1 * 4 + v2 \div 16>>
        ELSE IF base64[4] = "="
        THEN <<v1 * 4 + v2 \div 16, (v2 % 16) * 16 + v3 \div 4>>
        ELSE <<v1 * 4 + v2 \div 16, (v2 % 16) * 16 + v3 \div 4,
               (v3 % 4) * 64 + v4>>
             \o atob(SubSeq(base64, 5, len))

\* A mutation of encode: the code unit keeps seven bits of the byte.
encodeSevenBits(bytes) == btoa([i \in 1..Len(bytes) |-> bytes[i] % 128])

\* encode, EchoVision.tsx:81-86: String.fromCharCode of each byte, then btoa.
encode(bytes) == btoa([i \in 1..Len(bytes) |-> bytes[i]])

\* decode, EchoVision.tsx:88-93: atob, then charCodeAt of each character
\* stored into a Uint8Array.
decode(base64) ==
    LET binaryString == atob(base64)
    IN  [i \in 1..Len(binaryString) |-> binaryString[i] % 256]

\* The element of an Int16Array over the bytes lo, hi (little-endian).
Int16(lo, hi) ==
    LET u == lo + 256 * hi IN IF u >= 32768 THEN u - 65536 ELSE u

\* new Int16Array(data.buffer, data.byteOffset, length), EchoVision.tsx:96.
Int16Array(data, length) ==
    [k \in 1..length |-> Int16(data[2 * k - 1], data[2 * k])]

\* A chunk of n bytes of silence.
Silence(n) == [k \in 1..n |-> 0]

(***************************************************************************)
(* decodeAudioData(data, ctx, sampleRate, numChannels),                    *)
(* EchoVision.tsx:95-106.  new Int16Array(buffer, offset, n / 2) truncates *)
(* its length argument, and createBuffer truncates frameCount, so a        *)
(* trailing partial frame is ignored; createBuffer throws when no frame is *)
(* left.  The duration of the buffer is counted in frames of the output    *)
(* rate, and a sample value x / 32768.0 is given by x, in units of         *)
(* 1/32768.                                                                *)
(***************************************************************************)
decodeAudioData(data, numChannels) ==
    LET dataInt16 == Int16Array(data, Len(data) \div 2)
        frameCount == Len(dataInt16) \div numChannels
    IN  IF frameCount = 0 THEN NotSupportedError
        ELSE [length |-> frameCount, numberOfChannels |-> numChannels,
              duration |-> frameCount,
              channelData |->
                  [channel \in 0..(numChannels - 1) |->
                      [i \in 0..(frameCount - 1) |->
                          dataInt16[i * numChannels + channel + 1]]]]

\* A mutation of setLastMessage: the first fragment is kept.
keepFirst(prev, text) == IF prev = "" THEN text ELSE prev

\* setLastMessage(text), EchoVision.tsx:217: the fragment replaces the text.
setLastMessage(prev, text) == text

\* source.connect(outputNode), EchoVision.tsx:226: outputNode is the gain
\* node that attempt a made on its own output context (line 160), the source
\* is made on ctx, the context the ref holds when the message arrives;
\* connecting nodes of two contexts throws InvalidAccessError.
ConnectThrows(ctx, a) == ctx # a

(***************************************************************************)
(* onmessage of the connection of attempt a with the message m, up to its  *)
(* await, EchoVision.tsx:215-223.  If the message has an output            *)
(* transcription its text, whatever it is, replaces lastMessage.  If it    *)
(* has an audio part and an output context is held, the cursor is clamped  *)
(* to the clock (line 222) and the chunk s is decoded; the handler then    *)
(* returns to its caller at the await of line 223 and the rest of it is    *)
(* queued as a microtask.                                                  *)
(***************************************************************************)
onmessage(a, s, m) ==
    LET i == inst[a]
        ctx == audioContextOutputRef[i]
        n == m.audio IN
    /\ conn[a] = "open"
    /\ message' = m
    /\ lastMessage' =
          IF m.outputTranscription.present
          THEN setState(lastMessage, i,
                        setLastMessage(lastMessage[i],
                                       m.outputTranscription.text))
          ELSE lastMessage
    /\ IF n # 0 /\ ctx # 0
       THEN /\ srcState[s] = "none"
            /\ \A t \in Sources : t < s => srcState[t] # "none"
            /\ nextStartTimeRef' =
                  [nextStartTimeRef EXCEPT ![i] = Max(@, currentTime[ctx])]
            /\ srcState' = [srcState EXCEPT ![s] = "decoding"]
            /\ srcOwner' = [srcOwner EXCEPT ![s] = i]
            /\ srcSession' = [srcSession EXCEPT ![s] = a]
            /\ srcCtx' = [srcCtx EXCEPT ![s] = ctx]
            /\ srcBytes' = [srcBytes EXCEPT ![s] = n]
            /\ srcArrived' = [srcArrived EXCEPT ![s] = currentTime[ctx]]
            /\ srcStall' = [srcStall EXCEPT ![s] =
                                currentTime[ctx] > nextStartTimeRef[i]]
       ELSE UNCHANGED <<nextStartTimeRef, srcState, srcOwner, srcSession,
                        srcCtx, srcBytes, srcArrived, srcStall>>
    /\ UNCHANGED <<galVars, utilVars, outVars, appVars, status, nAtt,
                   isActive, error, sessionRef, audioContextInputRef,
                   audioContextOutputRef, frameIntervalRef, srcObject,
                   attVars, currentTime, srcStart, srcEnd, sourcesRef,
                   cueCtx, stopCues, teardowns>>

(***************************************************************************)
(* The rest of onmessage after the await, EchoVision.tsx:223-230, for the  *)
(* handler that returned first: a microtask.  It uses the context and the  *)
(* gain node that the handler read before the await and looks at no ref    *)
(* again.  A decode or a connect that throws ends the handler; else the    *)
(* source is started at the cursor, the cursor moves on by the duration    *)
(* and the source enters the set.  Microtasks run when the script of the   *)
(* task has returned, one after the other: the handlers that wait behind   *)
(* this one are "resuming", and none is called before they have resumed.   *)
(***************************************************************************)
Waiting == {"decoding", "resuming"}

decoded(s) ==
    LET i == srcOwner[s]
        ctx == srcCtx[s]
        buffer == decodeAudioData(Silence(srcBytes[s]), 1)
        outcome == IF buffer = NotSupportedError THEN "dropped"
                   ELSE IF ConnectThrows(ctx, srcSession[s]) THEN "failed"
                   ELSE "playing" IN
    /\ srcState[s] \in Waiting
    /\ \A t \in Sources : t < s => srcState[t] \notin Waiting
    /\ srcState' = [t \in Sources |->
                       IF t = s THEN outcome
                       ELSE IF srcState[t] = "decoding" THEN "resuming"
                       ELSE srcState[t]]
    /\ IF outcome # "playing"
       THEN UNCHANGED <<nextStartTimeRef, srcStart, srcEnd, sourcesRef>>
       ELSE /\ srcStart' = [srcStart EXCEPT ![s] = nextStartTimeRef[i]]
            /\ srcEnd' = [srcEnd EXCEPT ![s] =
                  Max(nextStartTimeRef[i], currentTime[ctx]) + buffer.duration]
            /\ nextStartTimeRef' =
                  [nextStartTimeRef EXCEPT ![i] = @ + buffer.duration]
            /\ sourcesRef' = [sourcesRef EXCEPT ![i] = @ \cup {s}]
    /\ UNCHANGED <<galVars, utilVars, inVars, outVars, appVars, status, nAtt,
                   isActive, error, sessionRef, audioContextInputRef,
                   audioContextOutputRef, frameIntervalRef, srcObject,
                   attVars, srcOwner, currentTime, srcSession, srcCtx,
                   srcBytes, srcArrived, srcStall, cueCtx, stopCues,
                   teardowns>>

(***************************************************************************)
(* Run to completion.  A microtask runs before the next task, so while a   *)
(* handler waits at its await no other script runs but what the caller of  *)
(* onmessage still does in the same task: further callbacks of the same    *)
(* connection, as long as no handler has resumed.  A click, a timer, an    *)
(* audio callback, a render or a callback of another connection is a task  *)
(* of its own and finds no handler waiting.  The output clock is advanced  *)
(* by the audio thread, not by a task: ctx.currentTime can move while a    *)
(* handler waits.                                                          *)
(***************************************************************************)
Suspended == {s \in Sources : srcState[s] \in Waiting}

\* No onmessage handler waits at its await: a new task may begin.
Quiet == Suspended = {}

\* A callback of the connection of attempt a may run: a new task, or the
\* task in which the handlers that wait were called by that connection and
\* whose script has not returned yet.
SameTask(a) ==
    \A s \in Suspended : srcSession[s] = a /\ srcState[s] = "decoding"

\* A mutation of delete: the source stays in the set.
deleteNothing(set, s) == set

\* sourcesRef.current.delete(source), EchoVision.tsx:227.
delete(set, s) == set \ {s}

\* source.onended, EchoVision.tsx:227: a started source plays to its end on
\* a running context; the clock has then reached the end of the source.
\* (For a source stopped by stopSession the set was cleared already and the
\* delete finds nothing, so that event has no step of its own.)
onended(s) ==
    LET ctx == srcCtx[s] IN
    /\ srcState[s] = "playing"
    /\ ctxOut[ctx] = "open"
    /\ srcEnd[s] <= MaxClock
    /\ \A t \in Sources :
          (srcState[t] = "playing" /\ srcCtx[t] = ctx) => srcEnd[s] <= srcEnd[t]
    /\ currentTime' = [currentTime EXCEPT ![ctx] = Max(@, srcEnd[s])]
    /\ srcState' = [srcState EXCEPT ![s] = "ended"]
    /\ sourcesRef' = [sourcesRef EXCEPT ![srcOwner[s]] = delete(@, s)]
    /\ UNCHANGED <<galVars, utilVars, inVars, outVars, appVars, status, nAtt, isActive, error, sessionRef,
                   audioContextInputRef, audioContextOutputRef,
                   frameIntervalRef, srcObject, attVars, srcOwner,
                   nextStartTimeRef, srcSession, srcCtx, srcBytes, srcArrived,
                   srcStall, srcStart, srcEnd, cueCtx, stopCues, teardowns>>

\* The clock of a running output context advances by one frame.
Tick(a) ==
    /\ ctxOut[a] = "open"
    /\ currentTime[a] < MaxClock
    /\ currentTime' = [currentTime EXCEPT ![a] = @ + 1]
    /\ UNCHANGED <<galVars, utilVars, inVars, outVars, appVars, status, nAtt, isActive, error, refVars, attVars,
                   srcVars, nextStartTimeRef, srcSession, srcCtx, srcBytes,
                   srcArrived, srcStall, srcStart, srcEnd, cueCtx, stopCues, teardowns>>

\* A mutation of Emit: a waiting frame is put before the ones that wait.
EmitNewestFirst(a, f) ==
    /\ f = produced[a] + 1
    /\ produced' = [produced EXCEPT ![a] = f]
    /\ IF pc[a] = "opened"
       THEN /\ queued' = [queued EXCEPT ![a] = <<f>> \o @]
            /\ UNCHANGED wire
       ELSE /\ wire' = [wire EXCEPT ![a] = f]
            /\ UNCHANGED queued

\* The frame f, the next one of the session, handed to
\* sessionPromise.then(session => session.sendRealtimeInput),
\* EchoVision.tsx:188-192 and 206-210: it waits behind the frames already
\* waiting while the promise is unresolved, otherwise it is passed to
\* sendRealtimeInput before any other callback runs.
Emit(a, f) ==
    /\ f = produced[a] + 1
    /\ produced' = [produced EXCEPT ![a] = f]
    /\ IF pc[a] = "opened"
       THEN /\ queued' = [queued EXCEPT ![a] = Append(@, f)]
            /\ UNCHANGED wire
       ELSE /\ wire' = [wire EXCEPT ![a] = f]
            /\ UNCHANGED queued

\* Such a frame reaches the remote side at once: the promise has resolved and
\* the connection is open.
Carried(a) == pc[a] = "done" /\ conn[a] = "open"

\* The ScriptProcessor of attempt a delivers blocks while its context runs.
AudioCapturing(a) == proc[a] # 0 /\ ctxIn[proc[a]] = "open"

\* onaudioprocess, EchoVision.tsx:184-193.
onaudioprocess(a, n) ==
    /\ AudioCapturing(a)
    /\ Emit(a, n)
    /\ UNCHANGED <<galVars, utilVars, inVars, appVars, status, nAtt, isActive, error, refVars, inst, pc,
                   tracks, ctxIn, ctxOut, conn, timer, proc, srcVars, cueCtx, stopCues,
                   teardowns,
                   playVars>>

\* The setInterval callback, EchoVision.tsx:198-213.  warm: the video has a
\* frame (videoWidth > 0).  canvasRef and videoRef are null once unmounted.
FrameAvailable(a, warm) ==
    cur = inst[a] /\ srcObject[inst[a]] # 0 /\ warm

\* A mutation of frameTick: the frame is drawn and emitted without the test.
frameTickUnguarded(a, warm, n) ==
    /\ timer[a]
    /\ Emit(a, n)
    /\ UNCHANGED <<galVars, utilVars, inVars, appVars, status, nAtt, isActive, error, refVars, inst, pc,
                   tracks, ctxIn, ctxOut, conn, timer, proc, srcVars, cueCtx, stopCues,
                   teardowns,
                   playVars>>

\* The setInterval callback proper.
frameTick(a, warm, n) ==
    /\ timer[a]
    /\ IF FrameAvailable(a, warm)
       THEN Emit(a, n)
       ELSE UNCHANGED <<queued, produced, wire>>
    /\ UNCHANGED <<galVars, utilVars, inVars, appVars, status, nAtt, isActive, error, refVars, inst, pc,
                   tracks, ctxIn, ctxOut, conn, timer, proc, srcVars, cueCtx, stopCues,
                   teardowns,
                   playVars>>

\* The Retry button of the error panel: setError(null), EchoVision.tsx:351.
DismissError ==
    /\ cur # 0
    /\ error[cur] # NoError
    /\ error' = [error EXCEPT ![cur] = NoError]
    /\ UNCHANGED <<galVars, utilVars, inVars, outVars, appVars, status, nAtt, isActive, refVars, attVars, srcVars,
                   cueCtx, stopCues, teardowns,
                   playVars>>

\* setMode('GALLERY'), App.tsx:80: EchoVision is unmounted; it registers no
\* effect cleanup, so nothing it holds is released.
SwitchToGallery ==
    /\ mode = "LIVE"
    /\ mode' = "GALLERY"
    /\ cur' = 0
    /\ UNCHANGED <<galVars, utilVars, inVars, outVars, status, nInst, nAtt, isActive, error, refVars, attVars,
                   srcVars, cueCtx, stopCues, teardowns,
                   playVars>>

\* setMode('LIVE'), App.tsx:65: a fresh EchoVision instance is mounted.
SwitchToLive ==
    /\ mode = "GALLERY"
    /\ nInst < MaxMounts
    /\ mode' = "LIVE"
    /\ nInst' = nInst + 1
    /\ cur' = nInst + 1
    \* the GalleryAnalyzer is unmounted: its state and its refs are gone
    /\ gallery' = GalleryInit
    /\ fileInputRef' = <<>>
    /\ mediaRecorderRef' = 0
    /\ UNCHANGED <<recVars, utilVars, inVars, outVars, status, nAtt, isActive,
                   error, refVars, attVars, srcVars, cueCtx, stopCues, teardowns,
                   playVars>>

\* The controller that attempt a belongs to holds an output context, the
\* test of EchoVision.tsx:220, on an open connection.
HoldsOutput(a) == conn[a] = "open" /\ audioContextOutputRef[inst[a]] # 0

Next ==
    \/ Quiet /\ StartClick
    \/ Quiet /\ UserStop
    \/ Quiet /\ DismissError
    \/ Quiet /\ SwitchToGallery
    \/ Quiet /\ SwitchToLive
    \/ \E a \in Attempts : Quiet /\ GumReject(a)
    \/ \E a \in Attempts : Quiet /\ GumResolveMounted(a)
    \/ \E a \in Attempts, o \in SetupOutcomes : Quiet /\ GumResolveUnmounted(a, o)
    \/ \E a \in Attempts : Quiet /\ PlayReject(a)
    \/ \E a \in Attempts, o \in SetupOutcomes : Quiet /\ PlayResolve(a, o)
    \/ \E a \in Attempts : Quiet /\ ConnectReject(a)
    \/ \E a \in Attempts : Quiet /\ onopen(a)
    \/ \E a \in Attempts : Quiet /\ Resolve(a)
    \/ \E a \in Attempts : SameTask(a) /\ onerror(a)
    \/ \E a \in Attempts : SameTask(a) /\ onclose(a)
    \/ \E a \in Attempts, s \in 1..MaxSources :
          SameTask(a) /\ HoldsOutput(a) /\ onmessage(a, s, AudioChunk(FrameBytes))
    \/ \E s \in Sources : Quiet /\ onended(s)
    \/ \E a \in Attempts : Quiet /\ onaudioprocess(a, 1)
    \/ \E a \in Attempts, warm \in BOOLEAN : Quiet /\ frameTick(a, warm, 1)
    \/ \E s \in Sources : decoded(s)

\* The lifecycle of the controller under every failure and every unmount;
\* the audio responses are chunks of one frame received while an output
\* context is held, the output never stalls, and the capture callbacks
\* produce the first frame of each session.
Spec == Init /\ [][Next]_vars

\* The Initialize button pressed while no earlier start is in progress and
\* no earlier connection is open or closing.
StartClickIdle ==
    /\ \A a \in Attempts :
          pc[a] \in {"none", "done"} /\ conn[a] \in {"none", "closed"}
    /\ StartClick

(***************************************************************************)
(* The playback scheduler: one mounted controller whose starts succeed and *)
(* follow one another, with chunks of every length, alone or with an       *)
(* output transcription, and transcriptions without audio; steps and       *)
(* stalls of the output clock, also while a handler waits at its await;    *)
(* stops by the user, and closes and errors of the remote side, also in    *)
(* the task that delivered a message.                                      *)
(***************************************************************************)
PlaybackMessages ==
    {[m EXCEPT !.audio = n] :
        m \in {NoMessage, OutputTranscript("A")}, n \in {0} \cup ChunkBytes}
        \ {NoMessage}

PlaybackNext ==
    \/ Quiet /\ StartClickIdle
    \/ Quiet /\ UserStop
    \/ \E a \in Attempts : Quiet /\ GumResolveMounted(a)
    \/ \E a \in Attempts : Quiet /\ PlayResolve(a, "ok")
    \/ \E a \in Attempts : Quiet /\ onopen(a)
    \/ \E a \in Attempts : Quiet /\ Resolve(a)
    \/ \E a \in Attempts : SameTask(a) /\ onerror(a)
    \/ \E a \in Attempts : SameTask(a) /\ onclose(a)
    \/ \E a \in Attempts, s \in 1..MaxPlayed, m \in PlaybackMessages :
          SameTask(a) /\ HoldsOutput(a) /\ onmessage(a, s, m)
    \/ \E s \in Sources : Quiet /\ onended(s)
    \/ \E a \in Attempts : Tick(a)
    \/ \E s \in Sources : decoded(s)

PlaybackSpec == Init /\ [][PlaybackNext]_vars

(***************************************************************************)
(* A burst of audio: the first session of one mounted controller, which    *)
(* receives up to MaxChunks chunks of every length, several of them in one *)
(* task, while the output clock steps or stalls, sources end, and the user *)
(* or the remote side ends the session.                                    *)
(***************************************************************************)
BurstNext ==
    \/ Quiet /\ nAtt = 0 /\ StartClickIdle
    \/ Quiet /\ UserStop
    \/ \E a \in Attempts : Quiet /\ GumResolveMounted(a)
    \/ \E a \in Attempts : Quiet /\ PlayResolve(a, "ok")
    \/ \E a \in Attempts : Quiet /\ onopen(a)
    \/ \E a \in Attempts : Quiet /\ Resolve(a)
    \/ \E a \in Attempts : SameTask(a) /\ onerror(a)
    \/ \E a \in Attempts : SameTask(a) /\ onclose(a)
    \/ \E a \in Attempts, s \in Sources, n \in ChunkBytes :
          SameTask(a) /\ HoldsOutput(a) /\ onmessage(a, s, AudioChunk(n))
    \/ \E s \in Sources : Quiet /\ onended(s)
    \/ \E a \in Attempts : Tick(a)
    \/ \E s \in Sources : decoded(s)

BurstSpec == Init /\ [][BurstNext]_vars

(***************************************************************************)
(* The inbound stream: controllers whose starts succeed and follow one     *)
(* another, receiving messages with an input transcription, an output      *)
(* transcription or neither, with and without audio, while the user stops, *)
(* restarts and switches the mode.                                         *)
(***************************************************************************)
RoutingNext ==
    \/ Quiet /\ StartClickIdle
    \/ Quiet /\ UserStop
    \/ Quiet /\ SwitchToGallery
    \/ Quiet /\ SwitchToLive
    \/ \E a \in Attempts : Quiet /\ GumResolveMounted(a)
    \/ \E a \in Attempts : Quiet /\ PlayResolve(a, "ok")
    \/ \E a \in Attempts : Quiet /\ onopen(a)
    \/ \E a \in Attempts : Quiet /\ Resolve(a)
    \/ \E a \in Attempts : SameTask(a) /\ onclose(a)
    \/ \E a \in Attempts, s \in 1..MaxRouted, m \in Messages :
          SameTask(a) /\ onmessage(a, s, m)
    \/ \E s \in Sources : decoded(s)

RoutingSpec == Init /\ [][RoutingNext]_vars

(***************************************************************************)
(* The capture pipeline: controllers whose starts succeed and follow one   *)
(* another, with audio blocks and frame ticks before and after the         *)
(* connection promise resolves, while the user stops, restarts and         *)
(* switches the mode and the remote side closes.                           *)
(***************************************************************************)
CaptureNext ==
    \/ StartClickIdle
    \/ UserStop
    \/ SwitchToGallery
    \/ SwitchToLive
    \/ \E a \in Attempts : GumResolveMounted(a)
    \/ \E a \in Attempts : PlayResolve(a, "ok")
    \/ \E a \in Attempts : onopen(a)
    \/ \E a \in Attempts : Resolve(a)
    \/ \E a \in Attempts : onclose(a)
    \/ \E a \in Attempts, n \in Frames : onaudioprocess(a, n)
    \/ \E a \in Attempts, warm \in BOOLEAN, n \in Frames : frameTick(a, warm, n)

CaptureSpec == Init /\ [][CaptureNext]_vars

(***************************************************************************)
(* The codec utilities applied to one input: every byte sequence of up to  *)
(* MaxLen bytes over ByteValues, and every sequence of 2 * MaxLen bytes    *)
(* over the first and the last of them, with 1 to MaxChannels channels.    *)
(***************************************************************************)
ByteValues == {0, 1, 127, 128, 255}
Inputs ==
    UNION {[1..n -> ByteValues] : n \in 0..MaxLen}
        \cup [1..(2 * MaxLen) -> {0, 255}]

UtilInit ==
    /\ InitController
    /\ argBytes \in Inputs
    /\ argChannels \in 1..MaxChannels
    /\ retEncode = NoResult
    /\ retDecode = NoResult
    /\ retDecodeAudioData = NoResult
    /\ inputData = <<>>
    /\ int16 = NoResult

\* encode(argBytes) is called.
CallEncode ==
    /\ retEncode = NoResult
    /\ retEncode' = Returned(encode(argBytes))
    /\ UNCHANGED <<galVars, inVars, outVars, appVars, status, nAtt, isActive,
                   error, refVars, attVars, srcVars, playVars, cueCtx, stopCues, teardowns,
                   argBytes, argChannels, retDecode, retDecodeAudioData,
                   inputData, int16>>

\* decode is called with the text that encode returned.
CallDecode ==
    /\ retEncode # NoResult
    /\ retDecode = NoResult
    /\ retDecode' = Returned(decode(retEncode.value))
    /\ UNCHANGED <<galVars, inVars, outVars, appVars, status, nAtt, isActive,
                   error, refVars, attVars, srcVars, playVars, cueCtx, stopCues, teardowns,
                   argBytes, argChannels, retEncode, retDecodeAudioData,
                   inputData, int16>>

\* decodeAudioData(argBytes, ctx, 24000, argChannels) is called.
CallDecodeAudioData ==
    /\ retDecodeAudioData = NoResult
    /\ retDecodeAudioData' = decodeAudioData(argBytes, argChannels)
    /\ UNCHANGED <<galVars, inVars, outVars, appVars, status, nAtt, isActive,
                   error, refVars, attVars, srcVars, playVars, cueCtx, stopCues, teardowns,
                   argBytes, argChannels, retEncode, retDecode,
                   inputData, int16>>

UtilNext == CallEncode \/ CallDecode \/ CallDecodeAudioData

UtilSpec == UtilInit /\ [][UtilNext]_vars

(***************************************************************************)
(* The quantization of a capture block, EchoVision.tsx:185-187.  A float   *)
(* sample x is given by the integer x * 65536, so that x * 32768 is half   *)
(* of it: the samples of SampleValues are -1.0 and 1.0, their neighbours   *)
(* -65535/65536 and 65535/65536, 0 and the samples of 1/2, 1 and 3/2 of an *)
(* Int16 step on both sides of it.                                         *)
(***************************************************************************)
SampleValues == {-65536, -65535, -3, -2, -1, 0, 1, 2, 3, 65535, 65536}
Blocks == UNION {[1..n -> SampleValues] : n \in 0..MaxBlock}

\* inputData[i] * 32768 with its fraction dropped, as ToNumber and the
\* truncation of the typed-array store leave it, for the sample x.
Truncated(x) == IF x >= 0 THEN x \div 2 ELSE -((-x) \div 2)

\* The store into an Int16Array element: the integer modulo 2^16, taken in
\* [-32768, 32767].
ToInt16(n) == ((n + 32768) % 65536) - 32768

\* const int16 = new Int16Array(inputData.length);
\* for (...) int16[i] = inputData[i] * 32768;   EchoVision.tsx:186-187.
quantize(block) == [i \in 1..Len(block) |-> ToInt16(Truncated(block[i]))]

QuantizeInit ==
    /\ InitController
    /\ argBytes = <<>>
    /\ argChannels = 1
    /\ retEncode = NoResult
    /\ retDecode = NoResult
    /\ retDecodeAudioData = NoResult
    /\ inputData \in Blocks
    /\ int16 = NoResult

\* onaudioprocess fills int16 from the block inputData.
CallQuantize ==
    /\ int16 = NoResult
    /\ int16' = Returned(quantize(inputData))
    /\ UNCHANGED <<galVars, inVars, outVars, appVars, status, nAtt, isActive,
                   error, refVars, attVars, srcVars, playVars, cueCtx, stopCues, teardowns,
                   argBytes, argChannels, retEncode, retDecode,
                   retDecodeAudioData, inputData>>

QuantizeNext == CallQuantize

QuantizeSpec == QuantizeInit /\ [][QuantizeNext]_vars

(***************************************************************************)
(* GalleryAnalyzer, GalleryAnalyzer.tsx.  A file is given by its size; the *)
(* object URL of a file by the same number.  Each press of the record      *)
(* button is a startRecording call with closures of its own: they see the  *)
(* mediaUrl of the render of the press, while the refs are read when the   *)
(* code runs.  The mount that follows EchoVision instance i is mount i.    *)
(***************************************************************************)

\* The GalleryAnalyzer mount i is the mounted one.
Mounted(i) == mode = "GALLERY" /\ nInst = i

\* The record button is rendered, GalleryAnalyzer.tsx:187.  Its disabled
\* attribute (line 217) keeps none of its handlers from running: touch
\* events and mouseleave are delivered to a disabled button.
MicButton == mode = "GALLERY" /\ gallery.mediaUrl # NoUrl

LiveVarsUnchanged ==
    UNCHANGED <<utilVars, inVars, outVars, appVars, nAtt, isActive, error,
                refVars, attVars, srcVars, playVars, cueCtx, stopCues, teardowns>>

\* handleFileUpload, GalleryAnalyzer.tsx:29-47, for the change event of the
\* input after the Select File button, which is rendered while there is no
\* mediaUrl (lines 138, 153).  The error is cleared first (line 30).  With
\* no file (the dialog was dismissed while the input held one: the input
\* is emptied) the handler returns (line 32); else the input holds the
\* file of the given size, and a file over the limit sets the error and
\* nothing else.
handleFileUpload(size) ==
    /\ mode = "GALLERY"
    /\ gallery.mediaUrl = NoUrl
    /\ IF size = NoFile
       THEN /\ fileInputRef # <<>>
            /\ fileInputRef' = <<>>
            /\ gallery' = [gallery EXCEPT !.error = ""]
       ELSE /\ fileInputRef' = <<size>>
            /\ gallery' =
                  IF size > MaxFileSize
                  THEN [gallery EXCEPT !.error = "File too large (max 10MB)."]
                  ELSE [gallery EXCEPT !.error = "", !.mediaUrl = size,
                                       !.result = ""]
    /\ UNCHANGED <<mediaRecorderRef, recVars, status>>
    /\ LiveVarsUnchanged

\* The Remove media button, GalleryAnalyzer.tsx:165-167.
removeMedia ==
    /\ mode = "GALLERY"
    /\ gallery.mediaUrl # NoUrl
    /\ gallery' = [gallery EXCEPT !.mediaUrl = NoUrl, !.result = "",
                                  !.error = ""]
    /\ UNCHANGED <<fileInputRef, mediaRecorderRef, recVars, status>>
    /\ LiveVarsUnchanged

\* startRecording up to its await, GalleryAnalyzer.tsx:49-51: the button is
\* pressed (a mouse button or a finger, also a second one while the first
\* is down, also during an analysis) and getUserMedia is called.
startRecording(p) ==
    /\ MicButton
    /\ p = nPress + 1
    /\ nPress' = p
    /\ held' = TRUE
    /\ rec' = [rec EXCEPT ![p] = "gum"]
    /\ recUrl' = [recUrl EXCEPT ![p] = gallery.mediaUrl]
    /\ recInst' = [recInst EXCEPT ![p] = nInst]
    /\ UNCHANGED <<compVars, mic, analysis, media, status>>
    /\ LiveVarsUnchanged

\* getUserMedia resolves, GalleryAnalyzer.tsx:52-68: the recorder is made,
\* stored in the ref and started, and isRecording is set.
getUserMediaResolve(p) ==
    /\ rec[p] = "gum"
    /\ rec' = [rec EXCEPT ![p] = "recording"]
    /\ mic' = [mic EXCEPT ![p] = "live"]
    /\ IF Mounted(recInst[p])
       THEN /\ mediaRecorderRef' = p
            /\ gallery' = [gallery EXCEPT !.isRecording = TRUE]
       ELSE UNCHANGED <<mediaRecorderRef, gallery>>
    /\ UNCHANGED <<fileInputRef, held, nPress, recUrl, recInst, analysis,
                   media, status>>
    /\ LiveVarsUnchanged

\* getUserMedia rejects, GalleryAnalyzer.tsx:69-71.
getUserMediaReject(p) ==
    /\ rec[p] = "gum"
    /\ rec' = [rec EXCEPT ![p] = "denied"]
    /\ gallery' = IF Mounted(recInst[p])
                  THEN [gallery EXCEPT !.error = "Microphone access denied."]
                  ELSE gallery
    /\ UNCHANGED <<fileInputRef, mediaRecorderRef, held, nPress, recUrl,
                   recInst, mic, analysis, media, status>>
    /\ LiveVarsUnchanged

\* stopRecording, GalleryAnalyzer.tsx:74-79, called when the button is
\* released or left (lines 212-215): the recorder of the ref is stopped if
\* isRecording is set; stop() of a recorder that is inactive does nothing.
stopRecording ==
    /\ MicButton
    /\ held' = FALSE
    /\ IF mediaRecorderRef # 0 /\ gallery.isRecording
       THEN /\ rec' = [rec EXCEPT ![mediaRecorderRef] =
                          IF @ = "recording" THEN "stopping" ELSE @]
            /\ gallery' = [gallery EXCEPT !.isRecording = FALSE]
       ELSE UNCHANGED <<rec, gallery>>
    /\ UNCHANGED <<fileInputRef, mediaRecorderRef, nPress, recUrl, recInst,
                   mic, analysis, media, status>>
    /\ LiveVarsUnchanged

\* The button is released where no handler runs: it is no longer
\* rendered, the mouse button is released over it while it is disabled
\* (line 217; a disabled button gets no mouseup), the touch is cancelled by
\* the platform (there is no onTouchCancel, lines 211-217), or the touched
\* element was replaced by a render before the finger is lifted.
releaseElsewhere ==
    /\ held
    /\ held' = FALSE
    /\ UNCHANGED <<compVars, nPress, rec, recUrl, recInst, mic, analysis,
                   media, status>>
    /\ LiveVarsUnchanged

\* recorder.onstop, GalleryAnalyzer.tsx:59-63, with processMultimodal up to
\* its first await, lines 90-103: without the mediaUrl of the press, or
\* without a file in the input (the ref of an unmounted component is null),
\* it returns; else the status becomes ANALYZING and the file that the
\* input holds now is the media part of the request.  Then the tracks of
\* the stream are stopped.
onstop(p) ==
    /\ rec' = [rec EXCEPT ![p] = "inactive"]
    /\ mic' = [mic EXCEPT ![p] = "stopped"]
    /\ IF recUrl[p] = NoUrl \/ ~Mounted(recInst[p]) \/ fileInputRef = <<>>
       THEN UNCHANGED <<analysis, media, status, gallery>>
       ELSE /\ analysis' = [analysis EXCEPT ![p] = "running"]
            /\ media' = [media EXCEPT ![p] = fileInputRef[1]]
            /\ status' = "ANALYZING"
            /\ gallery' = [gallery EXCEPT !.isProcessing = TRUE,
                                          !.result = "", !.error = ""]
    /\ UNCHANGED <<fileInputRef, mediaRecorderRef, held, nPress, recUrl,
                   recInst>>
    /\ LiveVarsUnchanged

\* The stop event of a recorder that stopRecording stopped.
RecorderStopped(p) == rec[p] = "stopping" /\ onstop(p)

\* The stop event of a recorder whose stream ended (the device was removed
\* or the permission revoked): a MediaRecorder stops when all its tracks
\* have ended.
StreamEnded(p) == rec[p] = "recording" /\ onstop(p)

\* What generateContent's response may hold as its text.
ResponseTexts == {undefined, "", "text"}

\* response.text || "I couldn't process that.", GalleryAnalyzer.tsx:118.
NoAnswer == "I couldn't process that."
textOrNoAnswer(text) == IF text \in {undefined, ""} THEN NoAnswer ELSE text

\* The request of processMultimodal settles, GalleryAnalyzer.tsx:104-131:
\* resolved (ok) with a response of the given text, or rejected.  The
\* result or the error is set, and finally isProcessing is reset and the
\* status becomes IDLE.
analysisSettles(p, ok, text) ==
    /\ analysis[p] = "running"
    /\ analysis' = [analysis EXCEPT ![p] = IF ok THEN "done" ELSE "failed"]
    /\ gallery' =
          IF ~Mounted(recInst[p]) THEN gallery
          ELSE IF ok
          THEN [gallery EXCEPT !.result = textOrNoAnswer(text),
                               !.isProcessing = FALSE]
          ELSE [gallery EXCEPT !.error = "Analysis failed. Please try again.",
                               !.result = "", !.isProcessing = FALSE]
    /\ status' = "IDLE"
    /\ UNCHANGED <<fileInputRef, mediaRecorderRef, held, nPress, rec, recUrl,
                   recInst, mic, media>>
    /\ LiveVarsUnchanged

(***************************************************************************)
(* The two modes of the App: GalleryAnalyzer with every order of its user  *)
(* and platform events, mode switches, and a live session whose start     *)
(* succeeds and which the user or the remote side ends.                    *)
(***************************************************************************)
GalleryNext ==
    \/ SwitchToGallery
    \/ SwitchToLive
    \/ \E size \in FileSizes \cup {NoFile} : handleFileUpload(size)
    \/ removeMedia
    \/ \E p \in Presses : startRecording(p)
    \/ \E p \in Presses : getUserMediaResolve(p)
    \/ \E p \in Presses : getUserMediaReject(p)
    \/ stopRecording
    \/ releaseElsewhere
    \/ \E p \in Presses : RecorderStopped(p)
    \/ \E p \in Presses : StreamEnded(p)
    \/ \E p \in Presses, ok \in BOOLEAN, text \in ResponseTexts :
          analysisSettles(p, ok, text)
    \/ nAtt < MaxLive /\ StartClickIdle
    \/ UserStop
    \/ \E a \in Attempts : GumResolveMounted(a)
    \/ \E a \in Attempts : PlayResolve(a, "ok")
    \/ \E a \in Attempts : onopen(a)
    \/ \E a \in Attempts : Resolve(a)
    \/ \E a \in Attempts : onerror(a)
    \/ \E a \in Attempts : onclose(a)

GallerySpec == Init /\ [][GalleryNext]_vars

\* What the platform is bound to do: a recorder that was stopped fires its
\* stop event.  Nothing bounds the request of processMultimodal, which is
\* awaited with no timeout (GalleryAnalyzer.tsx:104-117).
GalleryFairSpec ==
    GallerySpec /\ \A p \in Presses : WF_vars(RecorderStopped(p))

TypeOK ==
    /\ mode \in {"LIVE", "GALLERY"}
    /\ status \in SessionStatus
    /\ cur \in 0..MaxMounts
    /\ (cur = 0) <=> (mode = "GALLERY")
    /\ nAtt \in 0..MaxStarts
    /\ \A a \in Attempts :
         /\ pc[a] \in {"none", "gum", "play", "connecting", "opened", "done", "failed"}
         /\ (pc[a] = "none") <=> (a > nAtt)
         /\ tracks[a] \in {"none", "live", "stopped"}
         /\ conn[a] \in {"none", "opening", "open", "closing", "closed"}
         /\ queued[a] \in Seq(Frames) /\ Len(queued[a]) <= MaxFrames
         /\ produced[a] \in Frames \cup {NoFrame}
         /\ wire[a] \in Frames \cup {NoFrame}
    /\ lastMessage \in [Insts -> {"", undefined} \cup Texts]
    /\ argBytes \in Seq(0..255)
    /\ gallery \in [mediaUrl : {NoUrl} \cup FileSizes,
                    result : {"", "text", NoAnswer}, isProcessing : BOOLEAN,
                    isRecording : BOOLEAN,
                    error : {"", "File too large (max 10MB).",
                             "Microphone access denied.",
                             "Analysis failed. Please try again."}]
    /\ fileInputRef \in {<<>>} \cup {<<f>> : f \in FileSizes}
    /\ mediaRecorderRef \in 0..MaxPresses
    /\ held \in BOOLEAN
    /\ nPress \in 0..MaxPresses
    /\ \A p \in Presses :
         /\ rec[p] \in {"none", "gum", "denied", "recording", "stopping",
                        "inactive"}
         /\ recUrl[p] \in {NoUrl} \cup FileSizes
         /\ recInst[p] \in 0..MaxMounts
         /\ mic[p] \in {"none", "live", "stopped"}
         /\ analysis[p] \in {"none", "running", "done", "failed"}
         /\ media[p] \in {0} \cup FileSizes
    /\ argChannels \in 1..MaxChannels
    /\ inputData \in Seq(-65536..65536)
    /\ stopCues \in Nat
    /\ message \in [audio : 0..MaxBytes,
                    outputTranscription :
                        [present : BOOLEAN, text : {"", undefined} \cup Texts],
                    inputTranscription :
                        [present : BOOLEAN, text : {"", undefined} \cup Texts]]

(***************************************************************************)
(* Resources, as the claims count them.                                    *)
(***************************************************************************)
LiveConns == {a \in Attempts : conn[a] \in {"opening", "open"}}
LiveStreams == {a \in Attempts : tracks[a] = "live"}
ArmedTimers == {a \in Attempts : timer[a]}
OpenContexts == {a \in Attempts : ctxIn[a] = "open" \/ ctxOut[a] = "open"}
PlayingSources == {s \in Sources : srcState[s] = "playing"}

\* The attempts started by instance i.
Of(i) == {a \in Attempts : inst[a] = i}

\* stopSession ran on the refs of instance i in this step.
StopRanOn(i) ==
    \/ cur = i /\ UserStop
    \/ \E a \in Of(i) : onerror(a) \/ onclose(a)

\* The state and the refs of controller i as stopSession leaves them: the
\* status is IDLE and every ref is null.
RefsCleared(i) ==
    /\ status = "IDLE"
    /\ cur = i => ~isActive[i] /\ srcObject[i] = 0
    /\ frameIntervalRef[i] = 0
    /\ sessionRef[i] = 0
    /\ sourcesRef[i] = {}
    /\ audioContextInputRef[i] = 0
    /\ audioContextOutputRef[i] = 0

\* Nothing that instance i acquired is still in use.
Released(i) ==
    /\ RefsCleared(i)
    /\ srcObject[i] = 0
    /\ \A a \in Of(i) :
         /\ ~timer[a]
         /\ conn[a] \notin {"opening", "open"}
         /\ tracks[a] # "live"
         /\ ctxIn[a] # "open"
         /\ ctxOut[a] # "open"
    /\ \A s \in Sources : srcOwner[s] = i => srcState[s] # "playing"

\* C1: at most one live session per controller: never more than one open or
\* opening connection, one live capture stream and one armed frame timer.
C1_AtMostOneSession ==
    /\ Cardinality(LiveConns) <= 1
    /\ Cardinality(LiveStreams) <= 1
    /\ Cardinality(ArmedTimers) <= 1

\* C2: when stop() returns, from any non-IDLE state, the timer is cancelled,
\* the connection closed and its handle cleared, the source set empty, both
\* audio contexts closed and their refs cleared, every capture track the
\* controller acquired stopped, the video sink cleared and the status IDLE.
C2_StopReleasesEverything ==
    [][\A i \in Insts : (status # "IDLE" /\ StopRanOn(i)) => Released(i)']_vars

\* C3: never a half-open session: while the reported status is IDLE or
\* ERROR there is no open connection or handle, no armed timer, no live
\* capture track, no open session audio context and no active source.
C3_NoHalfOpenSession ==
    status \in {"IDLE", "ERROR"} =>
        /\ LiveConns = {}
        /\ ArmedTimers = {}
        /\ LiveStreams = {}
        /\ OpenContexts = {}
        /\ \A i \in Insts : sessionRef[i] = 0 /\ sourcesRef[i] = {}

\* C4: a remote error leaves the controller in ERROR with no active audio
\* source and no open capture track.
C4_RemoteErrorEndsInError ==
    [][\A a \in Attempts : onerror(a) =>
          (status = "ERROR" /\ PlayingSources = {} /\ LiveStreams = {})']_vars

\* start() failed after the capture devices were acquired: in video.play(),
\* in the set-up of the contexts, or in the connection promise.
FailsAfterAcquire(a) ==
    \/ PlayReject(a)
    \/ ConnectReject(a)
    \/ \E o \in SetupOutcomes \ {"ok"} :
          PlayResolve(a, o) \/ GumResolveUnmounted(a, o)

\* C5: a start() that fails after device acquisition ends in ERROR with
\* every capture track and audio context it acquired released.
C5_FailedStartReleases ==
    [][\A a \in Attempts : FailsAfterAcquire(a) =>
          (/\ status = "ERROR"
           /\ tracks[a] # "live"
           /\ ctxIn[a] # "open"
           /\ ctxOut[a] # "open")']_vars

\* C6: a start() that fails at getUserMedia leaves no un-closed audio
\* context and no connection handle behind: none is created on that path,
\* the one for the error cue included.
C6_DeniedStartLeavesNothing ==
    [][\A a \in Attempts : GumReject(a) =>
          /\ cueCtx' = cueCtx
          /\ ctxIn'[a] = "none" /\ ctxOut'[a] = "none"
          /\ conn'[a] = "none" /\ sessionRef'[inst[a]] = sessionRef[inst[a]]]_vars

\* A stopSession step on an instance that is already stopped changes nothing:
\* only the callback that made the call leaves its own mark (its connection
\* state, its count, and the error cue onerror plays before the call).
SecondStopIsNoOp(i) ==
    \E a \in Of(i) :
        /\ \/ onclose(a) /\ cueCtx' = cueCtx
           \/ onerror(a) /\ cueCtx' = playSoundCue(audioContextOutputRef[i], cueCtx)
        /\ \A b \in Attempts \ {a} : conn'[b] = conn[b]
        /\ UNCHANGED <<galVars, utilVars, inVars, outVars, appVars, status, nAtt, isActive, error, refVars, inst,
                       pc, tracks, ctxIn, ctxOut, timer, proc, queued, srcVars>>

\* C7: stop() is idempotent.  A stop() on a controller that an earlier
\* stop() has left stopped, also from within onerror, raises nothing,
\* changes nothing, and leaves what the first call is to leave: status
\* IDLE, no source scheduled, no open device track, no connection handle,
\* no audio context and no timer.
C7_StopIdempotent ==
    [][\A i \in Insts : (StopRanOn(i) /\ RefsCleared(i)) =>
          (SecondStopIsNoOp(i) /\ Released(i)')]_vars

\* C8: the callbacks of one session run the teardown at most once, also
\* when both onerror and onclose fire for it.
C8_TeardownOncePerSession == \A a \in Attempts : teardowns[a] <= 1

\* The status edges of the lifecycle state machine.
StatusEdges ==
    {<<"IDLE", "CONNECTING">>, <<"CONNECTING", "ACTIVE">>,
     <<"CONNECTING", "ERROR">>, <<"ACTIVE", "ERROR">>,
     <<"CONNECTING", "IDLE">>, <<"ACTIVE", "IDLE">>, <<"ERROR", "IDLE">>}

\* C9: the reported status changes only along the edges IDLE->CONNECTING,
\* CONNECTING->ACTIVE, CONNECTING->ERROR, ACTIVE->ERROR and non-IDLE->IDLE.
C9_StatusEdgesOnly ==
    [][status' # status => <<status, status'>> \in StatusEdges]_vars

\* A live session the user started is in progress in the mounted component.
SessionInProgress(a) ==
    /\ cur # 0
    /\ inst[a] = cur
    /\ pc[a] \in {"gum", "play", "connecting", "opened", "done"}
    /\ status \in {"CONNECTING", "ACTIVE"}

\* Audio or image frames of attempt a are reaching the remote side.
Streaming(a) ==
    /\ Carried(a)
    /\ AudioCapturing(a) \/ (timer[a] /\ FrameAvailable(a, TRUE))

\* C10: no hidden capture: a live capture track or a flowing frame implies
\* a user-started session in progress in the mounted component.
C10_NoHiddenCapture ==
    \A a \in Attempts :
        (tracks[a] = "live" \/ Streaming(a)) => SessionInProgress(a)

\* The chunk s was the first one its session received.
FirstOfSession(s) ==
    /\ srcSession[s] # 0
    /\ \A t \in Sources : t < s => srcSession[t] # srcSession[s]

\* The chunk s was handed to source.start.
Scheduled(s) == srcState[s] \in {"playing", "stopped", "ended"}

\* C11: in every session, a second or later one included, the first audio
\* chunk starts immediately: the start time it is given is the output
\* clock's value at its arrival, not a cursor left over from an earlier
\* session.
C11_FirstChunkStartsNow ==
    [][\A s \in Sources :
          (decoded(s) /\ FirstOfSession(s) /\ Scheduled(s)') =>
              srcStart'[s] = srcArrived[s]]_vars

\* buffer.duration of the scheduled chunk s, in frames.
Duration(s) == decodeAudioData(Silence(srcBytes[s]), 1).duration

RECURSIVE SumDurations(_, _)
\* d(s) + ... + d(u - 1)
SumDurations(s, u) == IF s >= u THEN 0 ELSE Duration(s) + SumDurations(s + 1, u)

\* The chunks s..u-1 of one session were scheduled, u is of that session
\* too, and each of them after s arrived before the cursor was reached: the
\* clock had not passed nextStartTimeRef.current, so the clamp of line 222
\* left the cursor as it was (no stall).
BackToBack(s, u) ==
    /\ \A t \in s..(u - 1) : Scheduled(t)
    /\ \A t \in s..u : srcSession[t] = srcSession[s] /\ srcSession[t] # 0
    /\ \A t \in (s + 1)..u : ~srcStall[t]

\* C12: for chunks of durations d1..dn delivered back-to-back with no
\* stall, the n-th start time is the first start time plus d1 + ... + d(n-1).
C12_BackToBackStarts ==
    [][\A s, u \in Sources :
          (s < u /\ BackToBack(s, u) /\ decoded(u) /\ Scheduled(u)') =>
              srcStart'[u] = srcStart[s] + SumDurations(s, u)]_vars

\* C13: no chunk is scheduled in the past: the start time given to
\* source.start is not earlier than the output clock at that call, and a
\* chunk that arrives after the clock has passed the cursor (the chunk
\* before it has finished playing) starts at the clock, not at the cursor.
C13_NeverScheduledInThePast ==
    [][\A s \in Sources :
          (decoded(s) /\ Scheduled(s)') =>
              /\ srcStart'[s] >= currentTime[srcCtx[s]]
              /\ srcStall[s] => srcStart'[s] = currentTime[srcCtx[s]]]_vars

\* The time at which the source of the scheduled chunk s began to play: its
\* start time, or the clock at source.start when the start time was past.
Began(s) == srcEnd[s] - Duration(s)

\* C14: chunks of one session are scheduled in arrival order without
\* overlap, in every interleaving of the handlers and their resumptions: a
\* later chunk is given a start time no earlier than an earlier chunk's
\* start time plus its duration, and its source does not begin to play
\* before the earlier one has played to its end.
C14_ArrivalOrderNoOverlap ==
    \A s, u \in Sources :
        (s < u /\ srcSession[s] = srcSession[u] /\ Scheduled(s) /\ Scheduled(u))
            => /\ srcStart[u] >= srcStart[s] + Duration(s)
               /\ Began(u) >= srcEnd[s]

\* The session that received chunk s was torn down: its controller no longer
\* holds the output context the chunk was received on.
TornDown(s) ==
    /\ srcState[s] # "none"
    /\ audioContextOutputRef[srcOwner[s]] # srcCtx[s]

\* The controller of chunk s has received a chunk in a later session.
LaterSessionChunk(s) ==
    \E t \in Sources :
        srcOwner[t] = srcOwner[s] /\ srcSession[t] > srcSession[s]

\* C15: from a teardown until a chunk is received in a new session, the
\* active-source set is empty and no started source is left unstopped, also
\* when an onmessage handler waited at its await during the teardown and
\* resumes after it.
C15_TeardownClearsSources ==
    \A s \in Sources :
        (TornDown(s) /\ ~LaterSessionChunk(s)) =>
            /\ srcState[s] # "playing"
            /\ s \notin sourcesRef[srcOwner[s]]

\* The spec's FormatError condition: the byte length is not a multiple of
\* 2 * channelCount.
Malformed(n, numChannels) == n % (2 * numChannels) # 0

\* C16: a malformed audio chunk received in an ACTIVE session is dropped: no
\* source is scheduled or added to the set for it, the cursor is not
\* advanced by it, and the session stays as it is.
C16_MalformedChunkDropped ==
    [][\A s \in Sources :
          (decoded(s) /\ Malformed(srcBytes[s], 1)) =>
              /\ ~Scheduled(s)'
              /\ UNCHANGED <<sourcesRef, nextStartTimeRef, status, isActive>>]_vars

\* decodeAudioData threw instead of returning a buffer.
Failed(buffer) == "error" \in DOMAIN buffer

\* C17: decodeAudioData fails, and returns no buffer, for every input whose
\* byte length is not a multiple of 2 * channelCount.
C17_DecodeRejectsMalformed ==
    \A s \in Sources :
        (srcState[s] # "none" /\ Malformed(srcBytes[s], 1)) =>
            Failed(decodeAudioData(Silence(srcBytes[s]), 1))

\* A device or connection failure of attempt a: a failed start(), a remote
\* error, or a close the controller did not ask for.
Failure(a) ==
    \/ GumReject(a)
    \/ FailsAfterAcquire(a)
    \/ onerror(a)
    \/ conn[a] \in {"opening", "open"} /\ onclose(a)

\* C18: every device or connection failure, a remote error or unexpected
\* close during an ACTIVE session included, is surfaced to the mounted
\* component as a status change and an error message: the status leaves
\* CONNECTING and ACTIVE and the error title/detail is set.
C18_FailuresSurfaced ==
    [][\A a \in Attempts :
          (cur = inst[a] /\ Failure(a)) =>
              /\ status' \notin {"CONNECTING", "ACTIVE"}
              /\ error'[inst[a]] # NoError]_vars

\* getUserMedia is called for attempt a in this step.
CallsGetUserMedia(a) == pc[a] # "gum" /\ pc'[a] = "gum"

\* ai.live.connect is called for attempt a in this step.
CallsConnect(a) == conn[a] # "opening" /\ conn'[a] = "opening"

\* C19: no automatic retry or reconnection.  getUserMedia is called only by
\* the user's start and for a new attempt, connect only once in the course
\* of that start, and a failure step calls neither.
C19_NoAutomaticRetry ==
    [][\A a \in Attempts :
          /\ CallsGetUserMedia(a) => (StartClick /\ a = nAtt' /\ pc[a] = "none")
          /\ CallsConnect(a) => (pc[a] \in {"gum", "play"} /\ conn[a] = "none")
          /\ Failure(a) =>
                /\ nAtt' = nAtt
                /\ \A b \in Attempts : ~CallsGetUserMedia(b) /\ ~CallsConnect(b)]_vars

\* C19 witness: the first session was ended by its connection, the user
\* started a second one, and that start failed; nothing else was started.
C19_FailedTwiceNoRetry ==
    /\ nAtt = 2
    /\ pc[1] = "done" /\ teardowns[1] >= 1 /\ conn[1] \in {"closing", "closed"}
    /\ pc[2] = "failed" /\ status = "ERROR"

\* The error values that failures of the given kinds are reported with.
ShownFor(kinds) == {ErrorShown(e) : e \in ErrorsOf(kinds)}

\* C20: the error a failed start() shows identifies its kind: the title and
\* detail shown for a permission denial, for unavailable hardware and for a
\* connection failure are not ones a failure of another of these kinds is
\* shown with.
C20_ErrorKindIdentified ==
    [][\A a \in Attempts :
          cur = inst[a] =>
              /\ \A err \in DeviceErrors :
                    GumRejectWith(a, err) =>
                        error'[inst[a]] \notin
                            ShownFor({"permission", "hardware", "connection"}
                                         \ {err.kind})
              /\ \A err \in ConnectionErrors :
                    ConnectRejectWith(a, err) =>
                        error'[inst[a]] \notin
                            ShownFor({"permission", "hardware"})]_vars

(***************************************************************************)
(* The inbound stream.                                                     *)
(***************************************************************************)

\* C21: every inbound transcription, of the user's speech or of the model's,
\* has its text forwarded to the UI of the controller that received it, and
\* every audio chunk received while the status is ACTIVE has its bytes
\* forwarded to the playback scheduler.
C21_EventsRouted ==
    [][\A a \in Attempts, s \in Sources, m \in Messages :
          onmessage(a, s, m) =>
              /\ m.outputTranscription.present =>
                    lastMessage'[inst[a]] = m.outputTranscription.text
              /\ m.inputTranscription.present =>
                    lastMessage'[inst[a]] = m.inputTranscription.text
              /\ (m.audio # 0 /\ status = "ACTIVE") =>
                    srcState'[s] = "decoding" /\ srcBytes'[s] = m.audio]_vars

\* The transcript panel of instance i, EchoVision.tsx:288-295: rendered
\* while the session is on, it shows the text, or the placeholder while
\* there is none.
Displayed(i) ==
    IF ~isActive[i] THEN "(not rendered)"
    ELSE IF lastMessage[i] \notin {"", undefined} THEN lastMessage[i]
    ELSE "Looking at your surroundings..."

\* C22: the transcript is the latest output fragment: a message with an
\* output transcription received by the mounted controller makes its text
\* the transcript, and no other message (audio included) and no other step
\* changes the transcript of the mounted controller.
C22_ReplaceByLatest ==
    [][/\ \A a \in Attempts, s \in Sources, m \in Messages :
            (onmessage(a, s, m) /\ inst[a] = cur) =>
                IF m.outputTranscription.present
                THEN lastMessage'[cur] = m.outputTranscription.text
                ELSE lastMessage'[cur] = lastMessage[cur]
       /\ (cur # 0 /\ cur' = cur /\ lastMessage'[cur] # lastMessage[cur]) =>
            /\ message'.outputTranscription = Transcription(lastMessage'[cur])
            /\ \E a \in Of(cur), s \in Sources : onmessage(a, s, message')]_vars

\* Fragment B was received after an earlier one, then a second audio chunk:
\* B is displayed.
C22_LatestShown ==
    /\ cur # 0
    /\ Displayed(cur) = "B"
    /\ message = AudioChunk(FrameBytes)
    /\ srcState[2] # "none"

(***************************************************************************)
(* The capture pipeline.                                                   *)
(***************************************************************************)

\* C23: the frames of a session are passed to sendRealtimeInput in the
\* order the capture callbacks produced them: the frames that wait for the
\* connection promise are the latest ones produced, in production order
\* with none missing; once none waits, every frame produced has been passed
\* and the last one passed is the last one produced; before the promise
\* resolves none is passed.
C23_SubmissionOrder ==
    \A a \in Attempts :
        LET q == queued[a] IN
        /\ \A j \in 1..Len(q) : q[j] = produced[a] - Len(q) + j
        /\ IF pc[a] = "opened"
           THEN wire[a] = NoFrame /\ Len(q) = produced[a]
           ELSE q = <<>> /\ wire[a] = produced[a]

\* Three frames were produced before the promise resolved and wait for it.
C23_ThreeDeferred ==
    \E a \in Attempts :
        /\ pc[a] = "opened"
        /\ conn[a] = "open"
        /\ queued[a] = <<1, 2, 3>>

\* C24: a frame-capture tick with no valid video frame (no frame decoded
\* yet, no stream attached, or the video and canvas gone with the unmounted
\* component) is skipped: it emits no frame, raises no error and changes
\* nothing; a tick with a valid frame emits exactly one frame, the next one
\* of the session, which waits for the connection promise or is passed to
\* sendRealtimeInput, and changes nothing else.
C24_TickSkipsOrEmitsOne ==
    [][\A a \in Attempts, warm \in BOOLEAN, n \in Frames :
          frameTick(a, warm, n) =>
              IF FrameAvailable(a, warm)
              THEN /\ produced'[a] = produced[a] + 1
                   /\ \/ /\ queued'[a] = Append(queued[a], produced'[a])
                         /\ wire'[a] = wire[a]
                      \/ /\ queued'[a] = queued[a]
                         /\ wire'[a] = produced'[a]
                   /\ \A b \in Attempts \ {a} :
                         /\ produced'[b] = produced[b]
                         /\ queued'[b] = queued[b]
                         /\ wire'[b] = wire[b]
                   /\ UNCHANGED <<status, isActive, error, refVars, inst, pc,
                                  tracks, ctxIn, ctxOut, conn, timer, proc>>
              ELSE UNCHANGED vars]_vars

\* The timer of a session is armed while there is no valid frame (the
\* component is unmounted or the stream is detached), after ticks with a
\* valid frame emitted frames.
C24_ArmedWithoutFrame ==
    \E a \in Attempts :
        /\ timer[a]
        /\ ~FrameAvailable(a, TRUE)
        /\ produced[a] > 0

(***************************************************************************)
(* The cursor of the playback scheduler.                                   *)
(***************************************************************************)

\* C25: nextStartTime never decreases: no step (a message with or without
\* audio, a resumed handler, a source that finished, a stop, a close, a
\* restart, a step of the clock) makes the cursor of a controller smaller.
C25_CursorNeverDecreases ==
    [][\A i \in Insts : nextStartTimeRef'[i] >= nextStartTimeRef[i]]_vars

\* A chunk of a second session arrived while the fresh clock was behind the
\* cursor, and was started at the cursor: the clamp did not pull it back.
C25_ClampKeptCursor ==
    \E s \in Sources :
        /\ srcSession[s] = 2
        /\ Scheduled(s)
        /\ srcStart[s] > srcArrived[s]
        /\ nextStartTimeRef[srcOwner[s]] > srcStart[s]

(***************************************************************************)
(* The codec utilities.                                                    *)
(***************************************************************************)

\* C26: for every byte sequence b, the empty one and bytes of 128 and more
\* included, decode(encode(b)) is b.
C26_CodecRoundTrip ==
    retDecode # NoResult => retDecode.value = argBytes

\* The round trip of four bytes with values on both sides of 128.
C26_HighBytesRoundTrip ==
    /\ argBytes = <<255, 128, 0, 127>>
    /\ retEncode = Returned(<<"/", "4", "A", "A", "f", "w", "=", "=">>)
    /\ retDecode = Returned(argBytes)

\* Sample k (from 0) of the bytes b read as signed 16-bit little-endian
\* integers.
Sample(b, k) ==
    b[2 * k + 1] + 256 * (b[2 * k + 2] % 128) - 32768 * (b[2 * k + 2] \div 128)

\* C27: for every PCM byte buffer whose length is a multiple of
\* 2 * channelCount, decodeAudioData returns a buffer of
\* frameCount = totalSamples / channelCount frames in which frame i of
\* channel c is sample i * channelCount + c divided by 32768, a value in
\* [-1.0, 1.0) that multiplied by 32768 is within one unit of the sample.
C27_PcmDecoded ==
    (retDecodeAudioData # NoResult /\ ~Malformed(Len(argBytes), argChannels)) =>
        LET audioBuffer == retDecodeAudioData
            totalSamples == Len(argBytes) \div 2
        IN  /\ ~Failed(audioBuffer)
            /\ audioBuffer.length = totalSamples \div argChannels
            /\ audioBuffer.numberOfChannels = argChannels
            /\ \A c \in 0..(argChannels - 1), i \in 0..(audioBuffer.length - 1) :
                  LET x == audioBuffer.channelData[c][i]
                      s == Sample(argBytes, i * argChannels + c)
                  IN  /\ x = s
                      /\ -32768 <= x /\ x < 32768
                      /\ x - s <= 1 /\ s - x <= 1

(***************************************************************************)
(* The App status and the GalleryAnalyzer.                                 *)
(***************************************************************************)

\* C28: the App status agrees with the live session: while the mounted
\* EchoVision has isActive set the status is ACTIVE, and while the status
\* is ACTIVE an EchoVision is mounted and has isActive set.
C28_StatusMatchesSession ==
    /\ (cur # 0 /\ isActive[cur]) => status = "ACTIVE"
    /\ status = "ACTIVE" => (cur # 0 /\ isActive[cur])

\* C29: once the user has released the record button no recording runs
\* with the microphone open, also when the button was released before
\* getUserMedia resolved.
C29_ReleasedStopsRecording ==
    ~held => \A p \in Presses : ~(rec[p] = "recording" /\ mic[p] = "live")

\* C30: the media part of a processMultimodal request is never a file
\* larger than MAX_FILE_SIZE_MB megabytes.
C30_NoOversizedMedia ==
    \A p \in Presses : media[p] <= MaxFileSize


(***************************************************************************)
(* C31: outbound frames are emitted only during the life of a session: no  *)
(* sendRealtimeInput call is made before the session's opened event, and   *)
(* none on a session that a stop has closed.  Every step that passes a     *)
(* frame of session a to sendRealtimeInput starts in a state where a has   *)
(* opened and its connection is open.                                      *)
(***************************************************************************)
C31_SendsOnlyWhileOpen ==
    [][\A a \in Attempts :
          wire'[a] # wire[a] =>
             pc[a] \in {"opened", "done"} /\ conn[a] = "open"]_vars


(***************************************************************************)
(* C32: active-set membership.  At every point the active set of a         *)
(* controller holds exactly the sources it has started whose               *)
(* playback-finished callback has not fired and that no teardown has       *)
(* stopped: a finished source is never still in the set and a started,     *)
(* unfinished source is never missing from it.                             *)
(***************************************************************************)
C32_ActiveSetMembership ==
    \A i \in Insts :
        sourcesRef[i] =
            {s \in Sources : srcOwner[s] = i /\ srcState[s] = "playing"}

\* One source has played to its end and left the set while a later one of
\* the same session plays and is the set.
C32_OneEndedOnePlaying ==
    \E s, u \in Sources :
        /\ srcSession[s] = srcSession[u]
        /\ srcState[s] = "ended"
        /\ srcState[u] = "playing"
        /\ sourcesRef[srcOwner[u]] = {u}


(***************************************************************************)
(* C33: capture quantization does not wrap around.  For every sample x of  *)
(* a block with -1.0 <= x <= 1.0 the 16-bit value emitted for it is        *)
(* x * 32768 truncated toward zero and saturated into [-32768, 32767], and *)
(* it does not have the opposite sign of x: 1.0 gives 32767, not -32768.   *)
(***************************************************************************)
C33_QuantizeSaturates ==
    int16 # NoResult =>
        \A i \in 1..Len(inputData) :
            LET x == inputData[i]
                n == Truncated(x)
                v == int16.value[i] IN
            /\ v = IF n > 32767 THEN 32767 ELSE IF n < -32768 THEN -32768 ELSE n
            /\ x > 0 => v >= 0
            /\ x < 0 => v <= 0


(***************************************************************************)
(* C34: the stop sound cue.  When the user stops an ACTIVE session with    *)
(* the Stop button the 'stop' cue is played exactly once; the teardown of  *)
(* onerror (silent = true) plays no stop cue; and a stopSession call made  *)
(* while no session is active (the onclose that follows a teardown) plays  *)
(* none.                                                                   *)
(***************************************************************************)
C34_StopCueOnUserStop ==
    [][/\ UserStop => stopCues' = stopCues + 1
       /\ \A a \in Attempts :
            /\ onerror(a) => stopCues' = stopCues
            /\ (onclose(a) /\ ~isActive[inst[a]]) => stopCues' = stopCues]_vars


(***************************************************************************)
(* C35: every analysis that starts ends, on success and on failure alike,  *)
(* with isProcessing = false and the reported status IDLE; on failure the  *)
(* error message is set and the result is cleared; and the status          *)
(* ANALYZING is reported only while an analysis is in progress.  The       *)
(* component state is that of the GalleryAnalyzer that started the         *)
(* analysis, while it is mounted.                                          *)
(***************************************************************************)
C35_AnalysisEndsIdle ==
    /\ \A p \in Presses :
          (analysis[p] = "running") ~> (analysis[p] \in {"done", "failed"})
    /\ [][\A p \in Presses, ok \in BOOLEAN, text \in ResponseTexts :
             analysisSettles(p, ok, text) =>
                /\ status' = "IDLE"
                /\ Mounted(recInst[p]) =>
                      /\ ~gallery'.isProcessing
                      /\ ~ok => /\ gallery'.error # ""
                                /\ gallery'.result = ""]_vars
    /\ [](status = "ANALYZING" => \E p \in Presses : analysis[p] = "running")

====
